---- MODULE Spec2Model ----
(***************************************************************************)
(* Model of legacy/oom/ai-analysis/main.py: the OOM report pipeline.       *)
(*                                                                         *)
(* Text is modelled as a sequence of chunks.  A chunk is either one of the *)
(* two tokens the regular expression of save_analysis_result looks for (in *)
(* two letter cases each), a newline, or a run of other characters.  The   *)
(* two tokens cannot overlap each other, so a chunk-level scan finds the   *)
(* same spans as the character-level one.  String concatenation is \o.     *)
(***************************************************************************)
EXTENDS Integers, Sequences, FiniteSets, TLC

\* Bounds of the model
MaxLen == 4         \* chunks in a text handed directly to save_analysis_result
MaxRespLen == 2     \* chunks in a backend response during a pipeline run
MaxEntries == 2     \* entries in the input directory

----------------------------------------------------------------------------
\* Python values

None == [t |-> "None"]
Unbound == [t |-> "unbound"]
Absent == [t |-> "absent"]
Str(s) == [t |-> "str", s |-> s]

----------------------------------------------------------------------------
\* Text

DOCTYPE == "<!DOCTYPE html>"
CLOSE == "</html>"
NL == "\n"

Chunks == {DOCTYPE, "<!doctype HTML>", CLOSE, "</HTML>", "x", NL}

Texts(n) == UNION {[1..k -> Chunks] : k \in 0..n}

\* re.IGNORECASE: pattern and subject are compared after case folding
Lower(c) ==
    CASE c = "<!DOCTYPE html>" -> "<!doctype html>"
      [] c = "<!doctype HTML>" -> "<!doctype html>"
      [] c = "</HTML>" -> "</html>"
      [] c = ".HTML" -> ".html"
      [] OTHER -> c

IsDoctype(c) == Lower(c) = Lower(DOCTYPE)

IsClose(c) == Lower(c) = Lower(CLOSE)

\* re.DOTALL: '.' matches every character, the newline included
Dot(c) == TRUE

\* The tail '.*?</html>' of the pattern, tried from chunk k on: the index of
\* the chunk where the match ends, 0 when it fails.  Lazy: the closing tag
\* is tried before '.' consumes anything more.
MatchEndGreedy(s, k) ==
    LET js == {j \in k..Len(s) : IsClose(s[j])}
    IN  IF js = {} THEN 0 ELSE CHOOSE j \in js : \A m \in js : m <= j
MatchEndTruncated(s, k) ==
    LET js == {j \in k..Len(s) : IsClose(s[j])}
    IN  IF js = {} THEN Len(s) ELSE CHOOSE j \in js : \A m \in js : j <= m
RECURSIVE MatchEnd(_, _)
MatchEnd(s, k) ==
    IF k > Len(s) THEN 0
    ELSE IF IsClose(s[k]) THEN k
    ELSE IF Dot(s[k]) THEN MatchEnd(s, k + 1)
    ELSE 0

\* re.search: the leftmost start at which the whole pattern matches
NoMatch == [start |-> 0, end |-> 0]
RECURSIVE re_search(_, _)
re_search(s, i) ==
    IF i > Len(s) THEN NoMatch
    ELSE IF IsDoctype(s[i]) /\ MatchEnd(s, i + 1) # 0
         THEN [start |-> i, end |-> MatchEnd(s, i + 1)]
         ELSE re_search(s, i + 1)

\* match.group(1)
GroupWithoutDoctype(s, m) == SubSeq(s, m.start + 1, m.end)
Group1(s, m) == SubSeq(s, m.start, m.end)

\* Lines 95-99 of save_analysis_result: the text that gets written
ReportExtractor(content) ==
    LET match == re_search(content, 1)
    IN  IF match # NoMatch THEN Group1(content, match) ELSE content

\* open(output_file, "w") followed by f.write(content)
AppendFile(old, content) ==
    IF old = Absent THEN Str(content) ELSE Str(old.s \o content)
WriteFile(old, content) == Str(content)

----------------------------------------------------------------------------
\* The input directory

Names == {<<"a", ".html">>, <<"b", ".html">>, <<"c", ".txt">>, <<"d", ".HTML">>}

DocTexts == {<<"AAA">>, <<"BBB">>, <<DOCTYPE, "x", CLOSE>>}

EntrySet ==
    {[name |-> n, isfile |-> FALSE, utf8 |-> TRUE, text |-> <<>>] : n \in Names}
    \cup {[name |-> n, isfile |-> TRUE, utf8 |-> FALSE, text |-> <<>>] : n \in Names}
    \cup [name : Names, isfile : {TRUE}, utf8 : {TRUE}, text : DocTexts]

\* os.listdir never returns a name twice
Listings ==
    UNION {{l \in [1..n -> EntrySet] :
               \A i, j \in 1..n : i # j => l[i].name # l[j].name}
           : n \in 0..MaxEntries}

DirStates == {"unset", "empty", "missing", "dir", "notdir"}

PriorFiles == {Absent, Str(<<"OLD">>)}

VARIABLES
    html_dir,       \* HTML_DIR: unset, "", or a path that is missing, a directory, or not a directory
    listing,        \* os.listdir(html_dir) with what the file system holds for each name
    prior,          \* the output file when the run starts
    out_file,       \* the output file now
    opened,         \* the output file has been opened for writing
    html_contents,  \* main's html_contents
    html_text,      \* main's html_text
    analysis_result,\* main's analysis_result
    requests,       \* requests sent to the backend
    pc,             \* where main is
    error           \* the exception that left main, if any

vars == <<html_dir, listing, prior, out_file, opened, html_contents,
          html_text, analysis_result, requests, pc, error>>

\* filename.endswith(suffix)
EndsWithIgnoreCase(name, suffix) ==
    Len(name) > 0 /\ Lower(name[Len(name)]) = suffix
EndsWith(name, suffix) == Len(name) > 0 /\ name[Len(name)] = suffix

\* The loop of lines 24-29 over the rest of the listing
RECURSIVE ReadLoopSkipBad(_, _)
ReadLoopSkipBad(entries, acc) ==
    IF entries = <<>> THEN [raised |-> FALSE, err |-> "", value |-> acc]
    ELSE LET e == Head(entries)
         IN  IF EndsWith(e.name, ".html") /\ e.isfile /\ e.utf8
             THEN ReadLoopSkipBad(Tail(entries), Append(acc, e.text))
             ELSE ReadLoopSkipBad(Tail(entries), acc)
RECURSIVE ReadLoop(_, _)
ReadLoop(entries, acc) ==
    IF entries = <<>> THEN [raised |-> FALSE, err |-> "", value |-> acc]
    ELSE LET e == Head(entries)
         IN  IF EndsWith(e.name, ".html") /\ e.isfile
             THEN IF e.utf8
                  THEN ReadLoop(Tail(entries), Append(acc, e.text))
                  ELSE [raised |-> TRUE, err |-> "UnicodeDecodeError", value |-> acc]
             ELSE ReadLoop(Tail(entries), acc)

\* os.path.exists(html_dir)
PathExists(dir) == dir \in {"dir", "notdir"}

read_html_files(dir) ==
    IF dir \notin {"unset", "empty"} /\ PathExists(dir)
    THEN IF dir = "notdir"
         THEN [raised |-> TRUE, err |-> "NotADirectoryError", value |-> <<>>]
         ELSE ReadLoop(listing, <<>>)
    ELSE [raised |-> FALSE, err |-> "", value |-> <<>>]

\* The prompt holds neither token of the pattern
get_analysis_prompt == <<"PROMPT">>

\* "\n".join(html_contents)
JoinLast(docs) == IF docs = <<>> THEN <<>> ELSE docs[Len(docs)]
RECURSIVE Join(_)
Join(docs) ==
    IF docs = <<>> THEN <<>>
    ELSE IF Len(docs) = 1 THEN docs[1]
    ELSE docs[1] \o <<NL>> \o Join(Tail(docs))

----------------------------------------------------------------------------
\* main

Init ==
    /\ html_dir \in DirStates
    /\ listing \in (IF html_dir = "dir" THEN Listings ELSE {<<>>})
    /\ prior \in PriorFiles
    /\ out_file = prior
    /\ opened = FALSE
    /\ html_contents = <<>>
    /\ html_text = <<>>
    /\ analysis_result = Unbound
    /\ requests = 0
    /\ pc = "start"
    /\ error = ""

\* Lines 112-113, read_html_files returns
MainCollect ==
    /\ pc = "start"
    /\ LET r == read_html_files(html_dir)
       IN  /\ ~r.raised
           /\ html_contents' = r.value
           /\ html_text' = Join(r.value)
    /\ pc' = "collected"
    /\ UNCHANGED <<html_dir, listing, prior, out_file, opened,
                   analysis_result, requests, error>>

\* Line 112, read_html_files raises
MainCollectRaises ==
    /\ pc = "start"
    /\ LET r == read_html_files(html_dir)
       IN  /\ r.raised
           /\ error' = r.err
    /\ pc' = "failed"
    /\ UNCHANGED <<html_dir, listing, prior, out_file, opened, html_contents,
                   html_text, analysis_result, requests>>

\* What the backend may put into choices[0].message.content
Responses == Texts(MaxRespLen) \cup {html_text, html_text \o get_analysis_prompt}

\* Lines 116-119, the backend answers with a string
AnalyzeReturns ==
    /\ pc = "collected"
    /\ \E body \in Responses : analysis_result' = Str(body)
    /\ requests' = requests + 1
    /\ pc' = "analyzed"
    /\ UNCHANGED <<html_dir, listing, prior, out_file, opened, html_contents,
                   html_text, error>>

\* Lines 116-119, the backend answers with a null content
AnalyzeReturnsNone ==
    /\ pc = "collected"
    /\ analysis_result' = None
    /\ requests' = requests + 1
    /\ pc' = "analyzed"
    /\ UNCHANGED <<html_dir, listing, prior, out_file, opened, html_contents,
                   html_text, error>>

\* Lines 116-119, the backend answers without choices: choices[0] raises
AnalyzeNoChoices ==
    /\ pc = "collected"
    /\ requests' = requests + 1
    /\ error' = "IndexError"
    /\ pc' = "failed"
    /\ UNCHANGED <<html_dir, listing, prior, out_file, opened, html_contents,
                   html_text, analysis_result>>

\* Lines 116-119, ChatCompletion.create raises, before or after sending
AnalyzeRaisesRetried ==
    /\ pc = "collected"
    /\ \E sent \in BOOLEAN : requests' = requests + (IF sent THEN 2 ELSE 0)
    /\ error' = "APIError"
    /\ pc' = "failed"
    /\ UNCHANGED <<html_dir, listing, prior, out_file, opened, html_contents,
                   html_text, analysis_result>>
AnalyzeRaisesSwallowed ==
    /\ pc = "collected"
    /\ \E sent \in BOOLEAN : requests' = requests + (IF sent THEN 1 ELSE 0)
    /\ error' = "APIError"
    /\ analysis_result' = Str(<<>>)
    /\ pc' = "analyzed"
    /\ UNCHANGED <<html_dir, listing, prior, out_file, opened, html_contents,
                   html_text>>
AnalyzeRaises ==
    /\ pc = "collected"
    /\ \E sent \in BOOLEAN : requests' = requests + (IF sent THEN 1 ELSE 0)
    /\ error' = "APIError"
    /\ pc' = "failed"
    /\ UNCHANGED <<html_dir, listing, prior, out_file, opened, html_contents,
                   html_text, analysis_result>>

\* Lines 122-125 with a None result: print succeeds, re.search raises
SaveTypeError ==
    /\ pc = "analyzed"
    /\ analysis_result = None
    /\ error' = "TypeError"
    /\ pc' = "failed"
    /\ UNCHANGED <<html_dir, listing, prior, out_file, opened, html_contents,
                   html_text, analysis_result, requests>>

\* Lines 122-125, open fails
SaveOpenFails ==
    /\ pc = "analyzed"
    /\ analysis_result # None
    /\ error' = "OSError"
    /\ pc' = "failed"
    /\ UNCHANGED <<html_dir, listing, prior, out_file, opened, html_contents,
                   html_text, analysis_result, requests>>

\* Lines 122-125, the report is written
SaveWritten ==
    /\ pc = "analyzed"
    /\ analysis_result # None
    /\ opened' = TRUE
    /\ out_file' = WriteFile(out_file, ReportExtractor(analysis_result.s))
    /\ pc' = "done"
    /\ UNCHANGED <<html_dir, listing, prior, html_contents, html_text,
                   analysis_result, requests, error>>

Next ==
    \/ MainCollect
    \/ MainCollectRaises
    \/ AnalyzeReturns
    \/ AnalyzeReturnsNone
    \/ AnalyzeNoChoices
    \/ AnalyzeRaises
    \/ SaveTypeError
    \/ SaveOpenFails
    \/ SaveWritten

Spec == Init /\ [][Next]_vars

\* save_analysis_result on its own: main with HTML_DIR unset, right after
\* the backend answered with a text of up to MaxLen chunks
InitExtract ==
    /\ html_dir = "unset"
    /\ listing = <<>>
    /\ prior \in PriorFiles
    /\ out_file = prior
    /\ opened = FALSE
    /\ html_contents = <<>>
    /\ html_text = <<>>
    /\ analysis_result \in {Str(s) : s \in Texts(MaxLen)}
    /\ requests = 1
    /\ pc = "analyzed"
    /\ error = ""

NextExtract == SaveOpenFails \/ SaveWritten

SpecExtract == InitExtract /\ [][NextExtract]_vars

----------------------------------------------------------------------------
\* Vocabulary of the properties, stated without the operators of the model

DoctypeTokens == {"<!DOCTYPE html>", "<!doctype HTML>"}
CloseTokens == {"</html>", "</HTML>"}

DoctypeAt(s) == {i \in 1..Len(s) : s[i] \in DoctypeTokens}
CloseAt(s) == {j \in 1..Len(s) : s[j] \in CloseTokens}
Min(S) == CHOOSE m \in S : \A n \in S : m <= n
Max(S) == CHOOSE m \in S : \A n \in S : n <= m

\* a declaration followed later by a closing root tag
HasSpan(s) == \E i \in DoctypeAt(s), j \in CloseAt(s) : i < j
FirstDoctype(s) == Min(DoctypeAt(s))
ClosesAfterFirst(s) == {j \in CloseAt(s) : j > FirstDoctype(s)}

\* the number of spans a scan from left to right finds one after the other
RECURSIVE SpanCount(_)
SpanCount(s) ==
    IF ~HasSpan(s) THEN 0
    ELSE 1 + SpanCount(SubSeq(s, Min(ClosesAfterFirst(s)) + 1, Len(s)))

IsSubstring(a, b) ==
    \E i \in 0..(Len(b) - Len(a)) : SubSeq(b, i + 1, i + Len(a)) = a

Written == pc = "done" /\ analysis_result.t = "str" /\ out_file.t = "str"

CollectErrors == {"UnicodeDecodeError", "NotADirectoryError"}

----------------------------------------------------------------------------
\* C1 as stated: when a declaration is followed by a closing root tag, the
\* text written runs from the first declaration through the LAST closing
\* root tag after it.
C1_LastClose ==
    (Written /\ HasSpan(analysis_result.s)) =>
        LET r == analysis_result.s
        IN  out_file.s = SubSeq(r, FirstDoctype(r), Max(ClosesAfterFirst(r)))

\* C1 amended: when a declaration (any letter case) is followed by a closing
\* root tag (any letter case), the text written runs from the first
\* declaration through the FIRST closing root tag after it, newlines
\* included.
C1_FirstClose ==
    (Written /\ HasSpan(analysis_result.s)) =>
        LET r == analysis_result.s
        IN  out_file.s = SubSeq(r, FirstDoctype(r), Min(ClosesAfterFirst(r)))

C1_Witness ==
    /\ Written
    /\ HasSpan(analysis_result.s)
    /\ Cardinality(ClosesAfterFirst(analysis_result.s)) = 2

\* C2: when the analysis client raises, the run has failed with that error,
\* the output file was never opened for writing and is as it was before the
\* run (absent, or with its prior content).
C2_ClientFailureWritesNothing ==
    error = "APIError" =>
        pc = "failed" /\ ~opened /\ out_file = prior

C2_Witness ==
    pc = "failed" /\ error = "APIError" /\ prior # Absent /\ requests = 1

\* C3: an empty or missing response body (no choices, null content, empty
\* string) never reaches the orchestrator as a result, so main is never past
\* the analysis call holding one.
C3_EmptyBodyIsFailure ==
    pc \in {"analyzed", "done"} =>
        analysis_result \notin {None, Str(<<>>)}

\* C4: when a qualifying input file is not valid UTF-8, the run goes from
\* its start to a decode failure and nowhere else: no request is sent and
\* the output file is neither opened nor changed.
BadQualifying ==
    /\ html_dir = "dir"
    /\ \E i \in 1..Len(listing) :
          /\ listing[i].name[Len(listing[i].name)] = ".html"
          /\ listing[i].isfile
          /\ ~listing[i].utf8
C4_DecodeFailureAborts ==
    BadQualifying =>
        /\ pc \in {"start", "failed"}
        /\ pc = "failed" => error = "UnicodeDecodeError"
        /\ requests = 0
        /\ ~opened
        /\ out_file = prior
        /\ analysis_result = Unbound

C4_Witness ==
    /\ pc = "failed"
    /\ error = "UnicodeDecodeError"
    /\ Len(listing) = 2
    /\ listing[1].name = <<"a", ".html">> /\ listing[1].isfile /\ listing[1].utf8
    /\ listing[2].name = <<"b", ".html">> /\ listing[2].isfile /\ ~listing[2].utf8

\* C5: for a text with no declaration followed later by a closing root tag
\* the extractor raises nothing and the text written is the input itself.
C5_NoSpanVerbatim ==
    (analysis_result.t = "str" /\ ~HasSpan(analysis_result.s)) =>
        /\ error # "TypeError"
        /\ pc = "done" => out_file = analysis_result

C5_Witness ==
    /\ Written
    /\ ~HasSpan(analysis_result.s)
    /\ DoctypeAt(analysis_result.s) # {}
    /\ out_file = analysis_result

\* C6: a run sends at most one request, and a run that completed sent
\* exactly one.
C6_AtMostOneRequest ==
    /\ requests <= 1
    /\ pc = "done" => requests = 1

C6_Witness ==
    pc = "failed" /\ error \in {"APIError", "IndexError"} /\ requests = 1

\* C7 as stated: with a client that returns the corpus unchanged, the output
\* contains every collected document, whatever the documents contain.
C7_EchoKeepsAll ==
    (Written /\ analysis_result = Str(html_text)) =>
        \A i \in 1..Len(html_contents) :
            IsSubstring(html_contents[i], out_file.s)

\* C7 amended: with a client that returns the corpus unchanged, the output
\* contains every collected document provided the corpus holds no
\* declaration followed later by a closing root tag.
C7_EchoKeepsAllWithoutSpan ==
    (Written /\ analysis_result = Str(html_text) /\ ~HasSpan(html_text)) =>
        \A i \in 1..Len(html_contents) :
            IsSubstring(html_contents[i], out_file.s)

C7_Witness ==
    /\ Written
    /\ analysis_result = Str(html_text)
    /\ ~HasSpan(html_text)
    /\ Len(html_contents) = 2
    /\ html_contents[1] # html_contents[2]

\* C8: applying the extractor to what it wrote gives the same text, for
\* every input with at most one span.
C8_Idempotent ==
    (Written /\ SpanCount(analysis_result.s) <= 1) =>
        ReportExtractor(out_file.s) = out_file.s

C8_Witness ==
    /\ Written
    /\ SpanCount(analysis_result.s) = 1
    /\ out_file # analysis_result

\* C9: the collector returns, in listing order, the contents of exactly the
\* entries named *.html that are regular files; with the path unset or
\* missing, or with no entry named *.html, it returns the empty sequence
\* and raises nothing.
Qualifies(e) == e.name[Len(e.name)] = ".html" /\ e.isfile
ExpectedContents ==
    LET sel == SelectSeq(listing, Qualifies)
    IN  [i \in 1..Len(sel) |-> sel[i].text]
NothingToCollect ==
    \/ html_dir \in {"unset", "empty", "missing"}
    \/ /\ html_dir = "dir"
       /\ \A i \in 1..Len(listing) :
             listing[i].name[Len(listing[i].name)] # ".html"
C9_CollectorContract ==
    /\ (pc # "start" /\ error \notin CollectErrors) =>
           html_contents = (IF html_dir = "dir" THEN ExpectedContents ELSE <<>>)
    /\ NothingToCollect =>
           /\ error \notin CollectErrors
           /\ html_contents = <<>>

C9_Witness ==
    /\ pc = "collected"
    /\ Len(listing) = 2
    /\ Len(html_contents) = 1
    /\ ~Qualifies(listing[1])
    /\ Qualifies(listing[2])

\* C10: after a run that completed, the output file holds the extracted
\* report and nothing else: a text from a declaration to a closing root
\* tag taken out of the response, or the response itself when it has no
\* span.
C10_FileIsReport ==
    pc = "done" =>
        /\ Written
        /\ opened
        /\ LET r == analysis_result.s
               o == out_file.s
           IN  IF HasSpan(r)
               THEN /\ Len(o) >= 2
                    /\ o[1] \in DoctypeTokens
                    /\ o[Len(o)] \in CloseTokens
                    /\ IsSubstring(o, r)
               ELSE o = r

C10_Witness ==
    /\ pc = "done"
    /\ prior # Absent
    /\ HasSpan(analysis_result.s)
    /\ Len(analysis_result.s) > Len(out_file.s)

====
